---- MODULE Spec2Model ----
(***************************************************************************)
(* Doctor availability and appointment-slot scheduling engine of the       *)
(* HealthMate backend: the MongoDB collections doctor_schedules,           *)
(* daily_overrides, appointment_slots and appointments, and the service    *)
(* operations that read and write them.                                    *)
(*                                                                         *)
(* Dates are day offsets from date.today(); a time of day is the number    *)
(* of minutes since midnight.  A Python None is NoTime (a time) or         *)
(* NoAppointment (an appointment id).                                      *)
(***************************************************************************)
EXTENDS Integers, Sequences, FiniteSets, TLC

VARIABLES
    doctor_schedules,   \* db.doctor_schedules: set of weekly schedule documents
    daily_overrides,    \* db.daily_overrides: set of override documents
    appointment_slots,  \* db.appointment_slots: set of slot documents
    appointments,       \* db.appointments: set of appointment documents
    doctor_availability,  \* db.doctor_availability: availability entries, in insertion order
    now,                \* datetime.utcnow(), in the milliseconds BSON keeps
    pc,                 \* per request task: where its create_appointment stands
    last,               \* the call that returned last, and what it returned
    listed,             \* the slot documents the last listing call returned
    winners,            \* per slot key: ids whose book_slot returned true since the key was last free
    first_cancel,       \* per appointment id: what its first cancellation reported
    prev,               \* the call before last, kept while last continues it
    fault,              \* the slot-store operation that raised during the last call
    gen,                \* per request task: the slot generation it is in the middle of
    adding,             \* per request task: where its add_block_time stands
    grid                \* one run of the slot generation loop: its arguments and locals

vars == <<doctor_schedules, daily_overrides, appointment_slots, appointments,
          doctor_availability, now, pc, last, listed, winners, first_cancel, prev, fault,
          gen, adding, grid>>

----------------------------------------------------------------------------
(* Bounds of the model *)

\* The generation horizon in days (the source generates today .. today+30).
HorizonDays == 1
\* Appointment ids in use (the source draws uuid4 strings).
MaxAppts == 2
\* Block-time windows one override holds.
MaxBlocks == 1
\* Milliseconds the clock may advance.
MaxClock == 2
\* Iterations of the slot generation loop that one run is followed for.
MaxIterations == 6
\* Block-time windows one override holds when tasks add them one by one.
MaxWindows == 2

(* Program constants *)

NoAppointment == 0
NoTime == -1
MinutesPerDay == 1440
DaysPerWeek == 7
NoDate == -1
DefaultSlotDuration == 30
Today == 0

Doctors == {"d1"}
Procs == {"p1", "p2"}
Dates == Today .. (Today + HorizonDays)
Ids == 1 .. MaxAppts
\* the id of the appointment that books while schedules and overrides change
FirstId == CHOOSE i \in Ids : \A j \in Ids : i <= j

AppointmentStatus == {"scheduled", "confirmed", "completed", "cancelled", "no_show"}

\* strftime('%A').lower(): the weekday of a date, as an index into the week
DayName(d) == d % DaysPerWeek

----------------------------------------------------------------------------
(* Documents *)

NoEntry == [present |-> FALSE, start_time |-> NoTime, end_time |-> NoTime,
            is_available |-> FALSE]

TimeSlot(s, e, a) == [present |-> TRUE, start_time |-> s, end_time |-> e,
                      is_available |-> a]

SlotDoc(doctor, d, t, avail, id) ==
    [doctor_email |-> doctor, slot_date |-> d, slot_time |-> t,
     is_available |-> avail, appointment_id |-> id]

KeyOf(s) == [doctor_email |-> s.doctor_email, slot_date |-> s.slot_date,
             slot_time |-> s.slot_time]

\* find_one on doctor_schedules
get_weekly_schedule(W, doctor) ==
    {w \in W : w.doctor_email = doctor}

\* find_one on daily_overrides
get_daily_override(O, doctor, d) ==
    {o \in O : o.doctor_email = doctor /\ o.override_date = d}

\* find on appointment_slots by doctor and date
SlotsOn(S, doctor, d) ==
    {s \in S : s.doctor_email = doctor /\ s.slot_date = d}

----------------------------------------------------------------------------
(* Time grid *)

add_minutes_to_time(t, minutes) == (t + minutes) % MinutesPerDay

\* block time overlap test of _generate_slots_for_day_with_overrides
IsBlocked(slot_start, slot_end, block_times) ==
    \E i \in 1 .. Len(block_times) :
        slot_start < block_times[i].end_time /\ slot_end > block_times[i].start_time

\* the body of the while loop: whether the slot starting at current_time is kept
keeps_slot(current_time, end_time, slot_duration, block_times) ==
    LET slot_end == add_minutes_to_time(current_time, slot_duration)
    IN slot_end <= end_time /\ ~IsBlocked(current_time, slot_end, block_times)

\* the while loop of the two slot generators: the start times kept, in order
RECURSIVE GridLoop(_, _, _, _, _)
GridLoop(current_time, end_time, slot_duration, block_times, acc) ==
    IF ~(current_time < end_time) THEN acc
    ELSE GridLoop(add_minutes_to_time(current_time, slot_duration), end_time,
                  slot_duration, block_times,
                  IF keeps_slot(current_time, end_time, slot_duration, block_times)
                  THEN Append(acc, current_time) ELSE acc)

SeqRange(s) == {s[i] : i \in 1 .. Len(s)}

----------------------------------------------------------------------------
(* Slot store *)

\* update_one(key, {"$set": slot_doc}, upsert=True) for every generated slot
create_appointment_slots(S, doctor, d, times) ==
    {s \in S : ~(s.doctor_email = doctor /\ s.slot_date = d /\ s.slot_time \in times)}
    \cup {SlotDoc(doctor, d, t, TRUE, NoAppointment) : t \in times}

\* _generate_slots_for_day that clears a date that has slots instead of leaving it
generate_slots_for_day_clearing(S, doctor, d, day_schedule) ==
    IF SlotsOn(S, doctor, d) # {} THEN S \ SlotsOn(S, doctor, d)
    ELSE create_appointment_slots(S, doctor, d,
            SeqRange(GridLoop(day_schedule.start_time, day_schedule.end_time,
                              DefaultSlotDuration, <<>>, <<>>)))

\* _generate_slots_for_day: nothing when the date has any slot
generate_slots_for_day(S, doctor, d, day_schedule) ==
    IF SlotsOn(S, doctor, d) # {} THEN S
    ELSE create_appointment_slots(S, doctor, d,
            SeqRange(GridLoop(day_schedule.start_time, day_schedule.end_time,
                              DefaultSlotDuration, <<>>, <<>>)))

\* _generate_slots_for_period, date by date
RECURSIVE generate_slots_for_period(_, _, _, _, _)
generate_slots_for_period(W, S, doctor, start_date, end_date) ==
    IF get_weekly_schedule(W, doctor) = {} \/ start_date > end_date THEN S
    ELSE LET weekly_schedule == CHOOSE w \in get_weekly_schedule(W, doctor) : TRUE
             day_schedule == weekly_schedule.days[DayName(start_date)]
             S1 == IF day_schedule.present /\ day_schedule.is_available
                   THEN generate_slots_for_day(S, doctor, start_date, day_schedule)
                   ELSE S
         IN generate_slots_for_period(W, S1, doctor, start_date + 1, end_date)

\* _ensure_slots_generated, date by date
RECURSIVE ensure_slots_generated(_, _, _, _, _)
ensure_slots_generated(W, S, doctor, start_date, end_date) ==
    IF get_weekly_schedule(W, doctor) = {} \/ start_date > end_date THEN S
    ELSE LET weekly_schedule == CHOOSE w \in get_weekly_schedule(W, doctor) : TRUE
             day_schedule == weekly_schedule.days[DayName(start_date)]
             open == day_schedule.present /\ day_schedule.is_available
             existing_slots == SlotsOn(S, doctor, start_date)
             S1 == IF open /\ existing_slots = {}
                   THEN generate_slots_for_day(S, doctor, start_date, day_schedule)
                   ELSE IF ~open /\ existing_slots # {}
                   THEN S \ existing_slots
                   ELSE S
         IN ensure_slots_generated(W, S1, doctor, start_date + 1, end_date)

\* _compute_day_availability
compute_day_availability(W, O, doctor, d) ==
    LET ws == get_weekly_schedule(W, doctor)
        ov == get_daily_override(O, doctor, d)
        day_schedule == IF ws = {} THEN NoEntry
                        ELSE (CHOOSE w \in ws : TRUE).days[DayName(d)]
        base == IF day_schedule.present /\ day_schedule.is_available
                THEN [is_available |-> TRUE, start_time |-> day_schedule.start_time,
                      end_time |-> day_schedule.end_time, block_times |-> <<>>]
                ELSE [is_available |-> FALSE, start_time |-> NoTime,
                      end_time |-> NoTime, block_times |-> <<>>]
    IN IF ov = {} THEN base
       ELSE LET o == CHOOSE x \in ov : TRUE
            IN IF ~o.is_available
               THEN [is_available |-> FALSE, start_time |-> NoTime,
                     end_time |-> NoTime, block_times |-> o.block_time_slots]
               ELSE [is_available |-> base.is_available,
                     start_time |-> IF o.start_time # NoTime THEN o.start_time
                                    ELSE base.start_time,
                     end_time |-> IF o.end_time # NoTime THEN o.end_time
                                  ELSE base.end_time,
                     block_times |-> o.block_time_slots]

\* _generate_slots_for_day_with_overrides
generate_slots_for_day_with_overrides(S, doctor, d, start_time, end_time, slot_duration, block_times) ==
    create_appointment_slots(S, doctor, d,
        SeqRange(GridLoop(start_time, end_time, slot_duration, block_times, <<>>)))

\* delete_many of _regenerate_slots_for_date: every slot of the date goes
regenerate_delete(S, doctor, d) == S \ SlotsOn(S, doctor, d)

\* _regenerate_slots_for_date
regenerate_slots_for_date(W, O, S, doctor, d) ==
    LET S0 == regenerate_delete(S, doctor, d)
        ca == compute_day_availability(W, O, doctor, d)
    IN IF ca.is_available /\ ca.start_time # NoTime /\ ca.end_time # NoTime
       THEN generate_slots_for_day_with_overrides(S0, doctor, d, ca.start_time,
                ca.end_time,
                (CHOOSE w \in get_weekly_schedule(W, doctor) : TRUE).slot_duration_minutes,
                ca.block_times)
       ELSE S0

\* the slot-store operations of a regeneration that may raise
StoreFaults == {"delete_many", "find", "update_one"}

\* the start times _regenerate_slots_for_date hands to create_appointment_slots
regenerated_times(W, O, doctor, d) ==
    LET ca == compute_day_availability(W, O, doctor, d)
    IN IF ca.is_available /\ ca.start_time # NoTime /\ ca.end_time # NoTime
       THEN GridLoop(ca.start_time, ca.end_time,
                (CHOOSE w \in get_weekly_schedule(W, doctor) : TRUE).slot_duration_minutes,
                ca.block_times, <<>>)
       ELSE <<>>

\* create_appointment_slots when the update_one after `written` upserts raises:
\* the except branch returns False and the slots written stay
create_appointment_slots_failing(S, doctor, d, times, written) ==
    create_appointment_slots(S, doctor, d, SeqRange(SubSeq(times, 1, written)))

\* _regenerate_slots_for_date when a slot-store operation raises: a raise of
\* delete_many leaves by the except branch, a raise of the find of get_day_view
\* gives an empty day view, a raise of update_one ends create_appointment_slots
regenerate_slots_for_date_failing(W, O, S, doctor, d, failed, written) ==
    IF failed = "delete_many" THEN S
    ELSE IF failed = "find" THEN regenerate_delete(S, doctor, d)
    ELSE create_appointment_slots_failing(regenerate_delete(S, doctor, d), doctor, d,
             regenerated_times(W, O, doctor, d), written)

\* whether _regenerate_slots_for_date calls the operation that raises, after
\* `written` upserts
regenerate_reaches(W, O, doctor, d, failed, written) ==
    IF failed = "update_one" THEN written < Len(regenerated_times(W, O, doctor, d))
    ELSE written = 0

\* _generate_slots_for_day when its find or an update_one raises: the date keeps
\* what it has, and the slots written before the raise
generate_slots_for_day_failing(S, doctor, d, day_schedule, failed, written) ==
    IF failed = "find" THEN S
    ELSE create_appointment_slots_failing(S, doctor, d,
             GridLoop(day_schedule.start_time, day_schedule.end_time,
                      DefaultSlotDuration, <<>>, <<>>), written)

\* _generate_slots_for_period when a slot-store operation raises on date d: the
\* except branches log it and the loop goes on with the next date
generate_slots_for_period_failing(W, S, doctor, start_date, end_date, d, failed, written) ==
    LET S1 == generate_slots_for_period(W, S, doctor, start_date, d - 1)
        S2 == generate_slots_for_day_failing(S1, doctor, d,
                  (CHOOSE w \in get_weekly_schedule(W, doctor) : TRUE).days[DayName(d)],
                  failed, written)
    IN generate_slots_for_period(W, S2, doctor, d + 1, end_date)

\* whether _generate_slots_for_period calls the operation that raises on date d
period_reaches(W, S, doctor, d, failed, written) ==
    /\ get_weekly_schedule(W, doctor) # {}
    /\ LET day_schedule == (CHOOSE w \in get_weekly_schedule(W, doctor) : TRUE).days[DayName(d)]
       IN /\ day_schedule.present /\ day_schedule.is_available
          /\ IF failed = "find" THEN written = 0
             ELSE /\ failed = "update_one"
                  /\ SlotsOn(S, doctor, d) = {}
                  /\ written < Len(GridLoop(day_schedule.start_time, day_schedule.end_time,
                                            DefaultSlotDuration, <<>>, <<>>))


\* delete_many of update_weekly_schedule and delete_weekly_schedule: today onwards
delete_future_slots(S, doctor) ==
    {s \in S : ~(s.doctor_email = doctor /\ s.slot_date >= Today)}

\* delete_many of cleanup_doctor_slots: every slot of the doctor
delete_doctor_slots(S, doctor) == {s \in S : s.doctor_email # doctor}

\* the slot store cleanup_doctor_slots leaves
cleanup_doctor_slots(W, S, doctor) ==
    generate_slots_for_period(W, delete_doctor_slots(S, doctor), doctor,
                              Today, Today + HorizonDays)

\* an update that adds the changed document and leaves the matched one in place
update_one_inserting(S, matched, doc) == S \cup {doc}

\* update_one on appointment_slots: the matched document becomes doc
update_one(S, matched, doc) == (S \ {matched}) \cup {doc}

\* book_slot's filter without its is_available condition
book_slot_filter_any_state(S, doctor, d, t) ==
    {s \in S : s.doctor_email = doctor /\ s.slot_date = d /\ s.slot_time = t}

\* the filter of book_slot's update_one
book_slot_filter(S, doctor, d, t) ==
    {s \in S : s.doctor_email = doctor /\ s.slot_date = d /\ s.slot_time = t
                /\ s.is_available = TRUE}

\* book_slot's $set without its is_available field
book_slot_set_id_only(s, appointment_id) ==
    [s EXCEPT !.appointment_id = appointment_id]

\* the $set of book_slot's update_one
book_slot_set(s, appointment_id) ==
    [s EXCEPT !.is_available = FALSE, !.appointment_id = appointment_id]

\* the filter of cancel_slot's update_one
cancel_slot_filter(S, appointment_id) ==
    {s \in S : s.appointment_id = appointment_id}

\* the $set of cancel_slot's update_one
cancel_slot_set(s) ==
    [s EXCEPT !.is_available = TRUE, !.appointment_id = NoAppointment]

\* DoctorAvailabilityModel.get_available_slots: the find of available slots in a range
available_slots_query(S, doctor, start_date, end_date) ==
    {s \in S : s.doctor_email = doctor /\ s.slot_date >= start_date
                /\ s.slot_date <= end_date /\ s.is_available = TRUE}

\* the block filter of get_available_slots_with_overrides
is_blocked_in_listing(slot, overrides) ==
    \E o \in overrides :
        /\ o.override_date = slot.slot_date
        /\ \E i \in 1 .. Len(o.block_time_slots) :
              /\ o.block_time_slots[i].start_time <= slot.slot_time
              /\ slot.slot_time < o.block_time_slots[i].end_time

\* get_daily_overrides_range
get_daily_overrides_range(O, doctor, start_date, end_date) ==
    {o \in O : o.doctor_email = doctor /\ o.override_date >= start_date
                              /\ o.override_date <= end_date}

----------------------------------------------------------------------------
(* Schedules and overrides *)

\* create_weekly_schedule: update_one by doctor_email with upsert
create_weekly_schedule(W, schedule_data) ==
    {w \in W : w.doctor_email # schedule_data.doctor_email} \cup {schedule_data}

\* DoctorAvailabilityModel.create_daily_override: update_one by (doctor, date) with upsert
save_daily_override(O, override_data) ==
    {o \in O : ~(o.doctor_email = override_data.doctor_email
                 /\ o.override_date = override_data.override_date)}
    \cup {override_data}

\* the validation of DoctorAvailabilityService.create_daily_override
override_is_valid(override_data) ==
    /\ (override_data.start_time # NoTime /\ override_data.end_time # NoTime)
          => override_data.start_time < override_data.end_time
    /\ \A i \in 1 .. Len(override_data.block_time_slots) :
          override_data.block_time_slots[i].start_time
              < override_data.block_time_slots[i].end_time

\* the $push of add_block_time
push_block_time(O, doctor, d, block_time) ==
    {IF o.doctor_email = doctor /\ o.override_date = d
     THEN [o EXCEPT !.block_time_slots = Append(@, block_time)]
     ELSE o : o \in O}

----------------------------------------------------------------------------
(* Appointments *)

\* the status values the query of _is_slot_available asks for
LiveStatusQuery == {"SCHEDULED", "CONFIRMED"}

\* AppointmentService._is_slot_available
is_slot_available(A, doctor, d, t) ==
    {a \in A : /\ a.doctor_email = doctor
               /\ a.appointment_date = d
               /\ a.appointment_time = t
               /\ a.status \in LiveStatusQuery} = {}

\* uuid4: an id no appointment has
NewId(A) == CHOOSE i \in Ids : i \notin {a.id : a \in A}
                               /\ \A j \in 1 .. (i - 1) : j \in {a.id : a \in A}

\* AppointmentModel.to_dict: the stored document of a new appointment
to_dict(id, doctor, d, t, utcnow) ==
    [id |-> id, doctor_email |-> doctor, appointment_date |-> d,
     appointment_time |-> t, status |-> "scheduled", updated_at |-> utcnow]

\* an AppointmentUpdate field that is None
NoStatus == "none"

\* the status changes of the appointment state machine
StatusTransitions ==
    {<<"scheduled", "confirmed">>, <<"confirmed", "completed">>,
     <<"scheduled", "cancelled">>, <<"confirmed", "cancelled">>,
     <<"scheduled", "no_show">>, <<"confirmed", "no_show">>}

\* AppointmentModel.update_dict: whether the update is accepted for the stored
\* appointment; a status is accepted along the state machine only
update_dict_accepts(a, update_data) ==
    \/ update_data.status = NoStatus
    \/ update_data.status = a.status
    \/ <<a.status, update_data.status>> \in StatusTransitions

\* AppointmentModel.update_dict and the $set of update_appointment: the fields
\* the update gives, and updated_at
update_dict(a, update_data, utcnow) ==
    [a EXCEPT
        !.appointment_date = IF update_data.appointment_date # NoDate
                             THEN update_data.appointment_date ELSE @,
        !.appointment_time = IF update_data.appointment_time # NoTime
                             THEN update_data.appointment_time ELSE @,
        !.status = IF update_data.status # NoStatus THEN update_data.status ELSE @,
        !.updated_at = utcnow]

\* the $set of cancel_appointment
cancel_set(a, utcnow) ==
    [a EXCEPT !.status = "cancelled", !.updated_at = utcnow]

----------------------------------------------------------------------------
(* AvailabilityService: the availability entries and the slots listed from them *)

\* the filter of set_doctor_availability's update_one
AvailabilityKey(av) ==
    [doctor_email |-> av.doctor_email, day_of_week |-> av.day_of_week,
     start_time |-> av.start_time]

\* set_doctor_availability: update_one by (doctor_email, day_of_week, start_time) with upsert
set_doctor_availability(DA, availability_doc) ==
    IF \E i \in 1 .. Len(DA) : AvailabilityKey(DA[i]) = AvailabilityKey(availability_doc)
    THEN [i \in 1 .. Len(DA) |->
             IF AvailabilityKey(DA[i]) = AvailabilityKey(availability_doc)
             THEN availability_doc ELSE DA[i]]
    ELSE Append(DA, availability_doc)

\* get_doctor_availability: the doctor's entries with is_available true, in stored order
get_doctor_availability(DA, doctor) ==
    LET keep(av) == av.doctor_email = doctor /\ av.is_available
    IN SelectSeq(DA, keep)

\* date.weekday()
weekday(d) == d % DaysPerWeek

\* the while loop of _generate_time_slots: every current_time before end_time
RECURSIVE generate_time_slots(_, _, _)
generate_time_slots(current_time, end_time, acc) ==
    IF ~(current_time < end_time) THEN acc
    ELSE generate_time_slots((current_time + DefaultSlotDuration) % MinutesPerDay,
                             end_time, Append(acc, current_time))

\* the status values the find of get_available_slots asks for
BookedStatusQuery == {"SCHEDULED", "CONFIRMED", "scheduled", "confirmed"}

\* the find on appointments of AvailabilityService.get_available_slots
existing_appointments(A, doctor, start_date, end_date) ==
    {a \in A : /\ a.doctor_email = doctor
               /\ a.appointment_date >= start_date
               /\ a.appointment_date <= end_date
               /\ a.status \in BookedStatusQuery}

\* _is_slot_booked
is_slot_booked(d, t, existing) ==
    \E a \in existing : a.appointment_date = d /\ a.appointment_time = t

AppointmentSlot(d, t, doctor, avail) ==
    [date |-> d, time |-> t, doctor_email |-> doctor, is_available |-> avail,
     duration_minutes |-> DefaultSlotDuration]

\* the entries get_available_slots uses for a date: those of its weekday, or the
\* first entry of the doctor when the weekday has none
day_availability(availability, d) ==
    LET of_day(av) == av.day_of_week = weekday(d)
        found == SelectSeq(availability, of_day)
    IN IF found = <<>> /\ availability # <<>> THEN <<availability[1]>> ELSE found

\* the slots AvailabilityService.get_available_slots collects for one date
slots_of_date(availability, existing, doctor, d) ==
    LET entries == day_availability(availability, d)
    IN UNION {{AppointmentSlot(d, t, doctor, ~is_slot_booked(d, t, existing)) :
                  t \in SeqRange(generate_time_slots(entries[i].start_time,
                                                     entries[i].end_time, <<>>))} :
              i \in 1 .. Len(entries)}

\* AvailabilityService.get_available_slots; month_end is the date of the range that
\* is the last day of its month (NoDate: none), where date(year, month, day + 1)
\* raises and the except branch returns []
availability_get_available_slots(DA, A, doctor, start_date, end_date, month_end) ==
    IF month_end # NoDate /\ start_date <= month_end /\ month_end <= end_date THEN {}
    ELSE LET availability == get_doctor_availability(DA, doctor)
             existing == existing_appointments(A, doctor, start_date, end_date)
         IN UNION {slots_of_date(availability, existing, doctor, d) :
                       d \in start_date .. end_date}


----------------------------------------------------------------------------
(* Requests *)

Ret(op, doctor, d, t, id, result) ==
    [op |-> op, doctor |-> doctor, date |-> d, time |-> t, id |-> id,
     result |-> result]

\* a call whose arguments no property reads
Done(op, result) == Ret(op, "d1", Today, NoTime, NoAppointment, result)

\* no slot-store operation raised
NoFault == "none"

\* a task that runs no slot generation
GenIdle == [state |-> "idle", doctor |-> "d1", date |-> Today, pending |-> <<>>]

\* a task that runs no add_block_time
NotAdding == [state |-> "idle", doctor |-> "d1", date |-> Today,
              block_time |-> [start_time |-> NoTime, end_time |-> NoTime],
              daily_override |-> {}]

\* no call
NoCall == Ret("none", "d1", Today, NoTime, NoAppointment, FALSE)

\* what prev keeps when a call returns: the last call, when it is one of ops,
\* returned true and was made for the same appointment id
Before(ops, id) ==
    IF last.op \in ops /\ last.result /\ last.id = id THEN last ELSE NoCall

\* no run of the generation loop
GridIdle == [state |-> "idle", start_time |-> NoTime, end_time |-> NoTime,
             slot_duration |-> DefaultSlotDuration, block_times |-> <<>>,
             current_time |-> NoTime, slots |-> <<>>, iterations |-> 0]

Idle == [state |-> "idle", doctor |-> "d1", date |-> Today, time |-> NoTime]

\* the entries winners keeps: those whose key is still booked
StillBooked(win, S) ==
    {w \in win : \E s \in S : KeyOf(s) = w.key /\ ~s.is_available}

DayEntries == {NoEntry, TimeSlot(540, 600, TRUE)}

ScheduleInputs ==
    {[doctor_email |-> doctor, days |-> days, slot_duration_minutes |-> 30] :
        doctor \in Doctors,
        days \in {f \in [0 .. (DaysPerWeek - 1) -> DayEntries] :
                    \A i \in 0 .. (DaysPerWeek - 1) :
                        (i \notin {DayName(d) : d \in Dates}) => f[i] = NoEntry}}

\* the templates that open today: there is a slot to book from the first request on
BookingSchedules == {sd \in ScheduleInputs : sd.days[DayName(Today)].present}

\* templates that open today, with a slot duration of 30 or of 60 minutes
DurationSchedules ==
    {[sd EXCEPT !.slot_duration_minutes = dur] :
        sd \in BookingSchedules, dur \in {DefaultSlotDuration, 2 * DefaultSlotDuration}}

BlockInputs == {[start_time |-> 540, end_time |-> 570]}

DailyOverride(doctor, d, a, s, e, b) ==
    [doctor_email |-> doctor, override_date |-> d, is_available |-> a,
     start_time |-> s, end_time |-> e, block_time_slots |-> b]

\* a closed day, an open day, a shorter day, a day with a block time, a bad interval
OverrideInputs ==
    UNION {{DailyOverride(doctor, d, FALSE, NoTime, NoTime, <<>>),
            DailyOverride(doctor, d, TRUE, NoTime, NoTime, <<>>),
            DailyOverride(doctor, d, TRUE, 570, 600, <<>>),
            DailyOverride(doctor, d, TRUE, 600, 570, <<>>)}
           \cup {DailyOverride(doctor, d, TRUE, NoTime, NoTime, <<b>>) : b \in BlockInputs} :
             doctor \in Doctors, d \in Dates}

\* block-time windows of a listed day: the first slot, a window across both slots
\* of 09:00-10:00, and the whole of that interval
ListingBlockInputs ==
    {[start_time |-> 540, end_time |-> 570], [start_time |-> 555, end_time |-> 585],
     [start_time |-> 540, end_time |-> 600]}

\* overrides of a listed day: open, with no window or with one
ListingOverrides ==
    {DailyOverride(doctor, d, TRUE, NoTime, NoTime, b) :
        doctor \in Doctors, d \in Dates,
        b \in {<<>>} \cup {<<w>> : w \in ListingBlockInputs}}


RequestTimes == {540, 570}

\* availability entries: 09:00 to 10:00 or to 09:45, on the weekdays of the horizon
AvailabilityInputs ==
    {[doctor_email |-> doctor, day_of_week |-> day, start_time |-> 540,
      end_time |-> e, is_available |-> a] :
        doctor \in Doctors, day \in {weekday(d) : d \in Dates}, e \in {585, 600},
        a \in BOOLEAN}


AppointmentUpdate(d, t, status) ==
    [appointment_date |-> d, appointment_time |-> t, status |-> status]

\* updates of the status alone
StatusUpdates == {AppointmentUpdate(NoDate, NoTime, st) : st \in AppointmentStatus}

\* updates of the date, of the time, or of both
RescheduleUpdates ==
    {AppointmentUpdate(d, t, NoStatus) : d \in Dates \cup {NoDate},
                                         t \in RequestTimes \cup {NoTime}}
    \ {AppointmentUpdate(NoDate, NoTime, NoStatus)}

\* the start_date, end_date of a listing request
DateRanges == {r \in Dates \X Dates : r[1] <= r[2]}

InitCollections ==
    /\ doctor_schedules = {}
    /\ daily_overrides = {}
    /\ appointment_slots = {}
    /\ appointments = {}
    /\ doctor_availability = <<>>
    /\ now = 0
    /\ pc = [p \in Procs |-> Idle]
    /\ last = Ret("init", "d1", Today, NoTime, NoAppointment, FALSE)
    /\ listed = {}
    /\ winners = {}
    /\ first_cancel = [i \in Ids |-> "none"]
    /\ prev = NoCall
    /\ fault = NoFault
    /\ gen = [p \in Procs |-> GenIdle]
    /\ adding = [p \in Procs |-> NotAdding]

Init == InitCollections /\ grid = GridIdle

\* a run of the generation loop that has just been entered
GridStart(start_time, end_time, slot_duration, block_times) ==
    [state |-> "running", start_time |-> start_time, end_time |-> end_time,
     slot_duration |-> slot_duration, block_times |-> block_times,
     current_time |-> start_time, slots |-> <<>>, iterations |-> 0]

\* block-time lists of a run: none, a window on the grid, a window across two
\* slots, a window after the interval
GridBlockInputs ==
    {<<>>, <<[start_time |-> 570, end_time |-> 600]>>,
     <<[start_time |-> 555, end_time |-> 585]>>,
     <<[start_time |-> 720, end_time |-> 780]>>}

\* the intervals and durations of a run: 09:00, 10:00 or 23:00 to 09:00, 10:00,
\* 11:00 or 23:45
GridRuns ==
    {GridStart(s, e, dur, b) : s \in {540, 600, 1380}, e \in {540, 600, 660, 1425},
                               dur \in {30, 45, 60}, b \in GridBlockInputs}

InitGrid == InitCollections /\ grid \in GridRuns

apptVars == <<appointments, doctor_availability, now, pc, first_cancel>>
slotVars == <<doctor_schedules, daily_overrides, appointment_slots, listed, winners>>

\* every write of the slot store but book_slot
StoreSlots(S) ==
    /\ appointment_slots' = S
    /\ winners' = StillBooked(winners, S)

\* DoctorAvailabilityService.set_weekly_schedule
SetWeeklySchedule(schedule_data) ==
    /\ doctor_schedules' = create_weekly_schedule(doctor_schedules, schedule_data)
    /\ StoreSlots(generate_slots_for_period(doctor_schedules', appointment_slots,
                      schedule_data.doctor_email, Today, Today + HorizonDays))
    /\ prev' = NoCall
    /\ fault' = NoFault
    /\ UNCHANGED <<gen, adding>>
    /\ UNCHANGED grid
    /\ last' = Done("set_weekly_schedule", TRUE)
    /\ listed' = {}
    /\ UNCHANGED <<daily_overrides, apptVars>>

\* DoctorAvailabilityService.update_weekly_schedule
UpdateWeeklySchedule(schedule_data) ==
    /\ doctor_schedules' = create_weekly_schedule(doctor_schedules, schedule_data)
    /\ StoreSlots(generate_slots_for_period(doctor_schedules',
                      delete_future_slots(appointment_slots, schedule_data.doctor_email),
                      schedule_data.doctor_email, Today, Today + HorizonDays))
    /\ prev' = NoCall
    /\ fault' = NoFault
    /\ UNCHANGED <<gen, adding>>
    /\ UNCHANGED grid
    /\ last' = Done("update_weekly_schedule", TRUE)
    /\ listed' = {}
    /\ UNCHANGED <<daily_overrides, apptVars>>

\* DoctorAvailabilityService.delete_weekly_schedule
DeleteWeeklySchedule(doctor) ==
    /\ doctor_schedules' = {w \in doctor_schedules : w.doctor_email # doctor}
    /\ StoreSlots(delete_future_slots(appointment_slots, doctor))
    /\ prev' = NoCall
    /\ fault' = NoFault
    /\ UNCHANGED <<gen, adding>>
    /\ UNCHANGED grid
    /\ last' = Done("delete_weekly_schedule", TRUE)
    /\ listed' = {}
    /\ UNCHANGED <<daily_overrides, apptVars>>

\* DoctorAvailabilityService.cleanup_doctor_slots
CleanupDoctorSlots(doctor) ==
    /\ StoreSlots(cleanup_doctor_slots(doctor_schedules, appointment_slots, doctor))
    /\ prev' = Before({"cleanup_doctor_slots"}, NoAppointment)
    /\ fault' = NoFault
    /\ UNCHANGED <<gen, adding>>
    /\ UNCHANGED grid
    /\ last' = Done("cleanup_doctor_slots", TRUE)
    /\ listed' = {}
    /\ UNCHANGED <<doctor_schedules, daily_overrides, apptVars>>

\* DoctorAvailabilityService.create_daily_override
CreateDailyOverride(override_data) ==
    /\ IF override_is_valid(override_data)
       THEN /\ daily_overrides' = save_daily_override(daily_overrides, override_data)
            /\ StoreSlots(regenerate_slots_for_date(doctor_schedules, daily_overrides',
                              appointment_slots, override_data.doctor_email,
                              override_data.override_date))
       ELSE UNCHANGED <<daily_overrides, appointment_slots, winners>>
    /\ prev' = NoCall
    /\ fault' = NoFault
    /\ UNCHANGED <<gen, adding>>
    /\ UNCHANGED grid
    /\ last' = Done("create_daily_override", override_is_valid(override_data))
    /\ listed' = {}
    /\ UNCHANGED <<doctor_schedules, apptVars>>

\* DoctorAvailabilityService.delete_daily_override
DeleteDailyOverride(doctor, d) ==
    LET success == get_daily_override(daily_overrides, doctor, d) # {}
    IN /\ daily_overrides' = daily_overrides \ get_daily_override(daily_overrides, doctor, d)
       /\ IF success
          THEN StoreSlots(regenerate_slots_for_date(doctor_schedules, daily_overrides',
                              appointment_slots, doctor, d))
          ELSE UNCHANGED <<appointment_slots, winners>>
       /\ prev' = NoCall
       /\ fault' = NoFault
       /\ UNCHANGED <<gen, adding>>
       /\ UNCHANGED grid
       /\ last' = Done("delete_daily_override", success)
       /\ listed' = {}
       /\ UNCHANGED <<doctor_schedules, apptVars>>

\* DoctorAvailabilityService.add_block_time
AddBlockTime(doctor, d, block_time) ==
    LET existing == get_daily_override(daily_overrides, doctor, d)
        override_data == [doctor_email |-> doctor, override_date |-> d,
                          is_available |-> TRUE, start_time |-> NoTime,
                          end_time |-> NoTime, block_time_slots |-> <<block_time>>]
        valid == existing # {} \/ override_is_valid(override_data)
    IN /\ \A o \in existing : Len(o.block_time_slots) < MaxBlocks
       /\ daily_overrides' =
             IF existing # {} THEN push_block_time(daily_overrides, doctor, d, block_time)
             ELSE IF valid THEN save_daily_override(daily_overrides, override_data)
             ELSE daily_overrides
       /\ IF valid
          THEN StoreSlots(regenerate_slots_for_date(doctor_schedules, daily_overrides',
                              appointment_slots, doctor, d))
          ELSE UNCHANGED <<appointment_slots, winners>>
       /\ prev' = NoCall
       /\ fault' = NoFault
       /\ UNCHANGED <<gen, adding>>
       /\ UNCHANGED grid
       /\ last' = Done("add_block_time", valid)
       /\ listed' = {}
       /\ UNCHANGED <<doctor_schedules, apptVars>>

\* DoctorAvailabilityService.get_available_slots
GetAvailableSlots(doctor, start_date, end_date) ==
    LET S == ensure_slots_generated(doctor_schedules, appointment_slots, doctor,
                                    start_date, end_date)
    IN /\ StoreSlots(S)
       /\ listed' = IF get_weekly_schedule(doctor_schedules, doctor) = {} THEN {}
                    ELSE available_slots_query(S, doctor, start_date, end_date)
       /\ prev' = NoCall
       /\ fault' = NoFault
       /\ UNCHANGED <<gen, adding>>
       /\ UNCHANGED grid
       /\ last' = Done("get_available_slots", TRUE)
       /\ UNCHANGED <<doctor_schedules, daily_overrides, apptVars>>

\* DoctorAvailabilityService.get_available_slots_with_overrides
GetAvailableSlotsWithOverrides(doctor, start_date, end_date) ==
    LET overrides == get_daily_overrides_range(daily_overrides, doctor, start_date, end_date)
        S == ensure_slots_generated(doctor_schedules, appointment_slots, doctor,
                                    start_date, end_date)
        base_slots == IF get_weekly_schedule(doctor_schedules, doctor) = {} THEN {}
                      ELSE available_slots_query(S, doctor, start_date, end_date)
    IN /\ StoreSlots(S)
       /\ listed' = {s \in base_slots : ~is_blocked_in_listing(s, overrides)}
       /\ prev' = NoCall
       /\ fault' = NoFault
       /\ UNCHANGED <<gen, adding>>
       /\ UNCHANGED grid
       /\ last' = Done("get_available_slots_with_overrides", TRUE)
       /\ UNCHANGED <<doctor_schedules, daily_overrides, apptVars>>

\* DoctorAvailabilityService.get_day_view: the computed availability of a date
GetDayView(doctor, d) ==
    LET ca == compute_day_availability(doctor_schedules, daily_overrides, doctor, d)
    IN /\ prev' = NoCall
       /\ fault' = NoFault
       /\ UNCHANGED <<gen, adding>>
       /\ last' = Ret("get_day_view", doctor, d, NoTime, NoAppointment, ca.is_available)
       /\ listed' = {}
       /\ UNCHANGED <<doctor_schedules, daily_overrides, appointment_slots, winners,
                      apptVars, grid>>

\* DoctorAvailabilityModel.book_slot
BookSlot(doctor, d, t, appointment_id) ==
    LET matched == book_slot_filter(appointment_slots, doctor, d, t)
    IN /\ IF matched = {}
          THEN UNCHANGED <<appointment_slots, winners>>
          ELSE \E s \in matched :
                 /\ appointment_slots' =
                       update_one(appointment_slots, s, book_slot_set(s, appointment_id))
                 /\ winners' = StillBooked(winners, appointment_slots')
                                 \cup {[key |-> KeyOf(s), id |-> appointment_id]}
       /\ prev' = NoCall
       /\ fault' = NoFault
       /\ UNCHANGED <<gen, adding>>
       /\ UNCHANGED grid
       /\ last' = Ret("book_slot", doctor, d, t, appointment_id, matched # {})
       /\ listed' = {}
       /\ UNCHANGED <<doctor_schedules, daily_overrides, apptVars>>

\* DoctorAvailabilityModel.cancel_slot
CancelSlot(appointment_id) ==
    LET matched == cancel_slot_filter(appointment_slots, appointment_id)
    IN /\ IF matched = {}
          THEN UNCHANGED <<appointment_slots, winners>>
          ELSE \E s \in matched :
                 StoreSlots(update_one(appointment_slots, s, cancel_slot_set(s)))
       /\ prev' = IF matched # {} THEN Before({"book_slot"}, appointment_id) ELSE NoCall
       /\ fault' = NoFault
       /\ UNCHANGED <<gen, adding>>
       /\ UNCHANGED grid
       /\ last' = Ret("cancel_slot", "d1", Today, NoTime, appointment_id, matched # {})
       /\ listed' = {}
       /\ UNCHANGED <<doctor_schedules, daily_overrides, apptVars>>

\* AppointmentService.create_appointment, to the availability check
CreateCheck(p, doctor, d, t) ==
    /\ pc[p].state = "idle"
    /\ LET ok == is_slot_available(appointments, doctor, d, t)
       IN /\ pc' = [pc EXCEPT ![p] =
                       IF ok THEN [state |-> "checked", doctor |-> doctor,
                                   date |-> d, time |-> t]
                       ELSE Idle]
          /\ prev' = NoCall
          /\ fault' = NoFault
          /\ UNCHANGED <<gen, adding>>
          /\ UNCHANGED grid
          /\ last' = Ret("_is_slot_available", doctor, d, t, NoAppointment, ok)
    /\ UNCHANGED <<appointments, doctor_availability, now, first_cancel, slotVars>>

\* AppointmentService.create_appointment, the insert
CreateInsert(p) ==
    /\ pc[p].state = "checked"
    /\ Cardinality(appointments) < MaxAppts
    /\ LET id == NewId(appointments)
       IN /\ appointments' = appointments \cup
                {to_dict(id, pc[p].doctor, pc[p].date, pc[p].time, now)}
          /\ prev' = NoCall
          /\ fault' = NoFault
          /\ UNCHANGED <<gen, adding>>
          /\ UNCHANGED grid
          /\ last' = Ret("create_appointment", pc[p].doctor, pc[p].date, pc[p].time,
                         id, TRUE)
    /\ pc' = [pc EXCEPT ![p] = Idle]
    /\ UNCHANGED <<doctor_availability, now, first_cancel, slotVars>>

\* AppointmentService.cancel_appointment
CancelAppointment(appointment_id) ==
    LET matched == {a \in appointments : a.id = appointment_id}
        updated == {cancel_set(a, now) : a \in matched}
        result == matched # {} /\ updated # matched
    IN /\ appointments' = (appointments \ matched) \cup updated
       /\ first_cancel' =
             IF matched # {} /\ first_cancel[appointment_id] = "none"
             THEN [first_cancel EXCEPT ![appointment_id] =
                      IF result THEN "true" ELSE "false"]
             ELSE first_cancel
       /\ prev' = NoCall
       /\ fault' = NoFault
       /\ UNCHANGED <<gen, adding>>
       /\ UNCHANGED grid
       /\ last' = Ret("cancel_appointment", "d1", Today, NoTime, appointment_id, result)
       /\ UNCHANGED <<doctor_availability, now, pc, slotVars>>

\* one iteration of the while loop of _generate_slots_for_day(_with_overrides)
GridIterate ==
    /\ grid.state = "running"
    /\ grid.current_time < grid.end_time
    /\ grid.iterations < MaxIterations
    /\ grid' = [grid EXCEPT
                  !.current_time = add_minutes_to_time(grid.current_time,
                                                       grid.slot_duration),
                  !.slots = IF keeps_slot(grid.current_time, grid.end_time,
                                          grid.slot_duration, grid.block_times)
                            THEN Append(@, grid.current_time) ELSE @,
                  !.iterations = @ + 1]
    /\ UNCHANGED <<doctor_schedules, daily_overrides, appointment_slots, appointments,
                   doctor_availability, now, pc, last, listed, winners, first_cancel, prev,
                   fault, gen, adding>>

\* an iteration of the while loop after the MaxIterations that are recorded: the
\* time advances, the slots and the count stay as they are
GridIterateOn ==
    /\ grid.state = "running"
    /\ grid.current_time < grid.end_time
    /\ grid.iterations >= MaxIterations
    /\ grid' = [grid EXCEPT
                  !.current_time = add_minutes_to_time(grid.current_time,
                                                       grid.slot_duration)]
    /\ UNCHANGED <<doctor_schedules, daily_overrides, appointment_slots, appointments,
                   doctor_availability, now, pc, last, listed, winners, first_cancel, prev,
                   fault, gen, adding>>

\* the while loop ends: current_time < end_time is false
GridExit ==
    /\ grid.state = "running"
    /\ ~(grid.current_time < grid.end_time)
    /\ grid' = [grid EXCEPT !.state = "done"]
    /\ UNCHANGED <<doctor_schedules, daily_overrides, appointment_slots, appointments,
                   doctor_availability, now, pc, last, listed, winners, first_cancel, prev,
                   fault, gen, adding>>

\* AppointmentService.update_appointment
UpdateAppointment(appointment_id, update_data) ==
    LET matched == {a \in appointments : a.id = appointment_id}
        accepted == \A a \in matched : update_dict_accepts(a, update_data)
        updated == IF accepted THEN {update_dict(a, update_data, now) : a \in matched}
                   ELSE matched
        result == matched # {} /\ updated # matched
    IN /\ appointments' = (appointments \ matched) \cup updated
       /\ prev' = NoCall
       /\ fault' = NoFault
       /\ UNCHANGED <<gen, adding>>
       /\ UNCHANGED grid
       /\ last' = Ret("update_appointment", "d1", Today, NoTime, appointment_id, result)
       /\ UNCHANGED <<doctor_availability, now, pc, first_cancel, slotVars>>

\* AvailabilityService.set_doctor_availability
SetDoctorAvailability(availability_data) ==
    /\ doctor_availability' = set_doctor_availability(doctor_availability, availability_data)
    /\ prev' = NoCall
    /\ fault' = NoFault
    /\ UNCHANGED <<gen, adding>>
    /\ last' = Done("set_doctor_availability", TRUE)
    /\ listed' = {}
    /\ UNCHANGED <<doctor_schedules, daily_overrides, appointment_slots, winners,
                   appointments, now, pc, first_cancel, grid>>

\* AvailabilityService.get_available_slots
AvailabilityGetAvailableSlots(doctor, start_date, end_date, month_end) ==
    /\ listed' = availability_get_available_slots(doctor_availability, appointments,
                     doctor, start_date, end_date, month_end)
    /\ prev' = NoCall
    /\ fault' = NoFault
    /\ UNCHANGED <<gen, adding>>
    /\ last' = Done("AvailabilityService.get_available_slots", TRUE)
    /\ UNCHANGED <<doctor_schedules, daily_overrides, appointment_slots, winners,
                   apptVars, grid>>


\* set_weekly_schedule when a slot-store operation of the generation raises on date d
SetWeeklyScheduleFailing(schedule_data, d, failed, written) ==
    /\ doctor_schedules' = create_weekly_schedule(doctor_schedules, schedule_data)
    /\ period_reaches(doctor_schedules', appointment_slots, schedule_data.doctor_email,
                      d, failed, written)
    /\ StoreSlots(generate_slots_for_period_failing(doctor_schedules', appointment_slots,
                      schedule_data.doctor_email, Today, Today + HorizonDays,
                      d, failed, written))
    /\ prev' = NoCall
    /\ fault' = failed
    /\ UNCHANGED <<gen, adding>>
    /\ UNCHANGED grid
    /\ last' = Done("set_weekly_schedule", TRUE)
    /\ listed' = {}
    /\ UNCHANGED <<daily_overrides, apptVars>>

\* update_weekly_schedule when a slot-store operation raises: its own delete_many,
\* or an operation of the generation on date d
UpdateWeeklyScheduleFailing(schedule_data, d, failed, written) ==
    LET doctor == schedule_data.doctor_email
        S0 == delete_future_slots(appointment_slots, doctor)
    IN /\ doctor_schedules' = create_weekly_schedule(doctor_schedules, schedule_data)
       /\ IF failed = "delete_many"
          THEN /\ written = 0 /\ d = Today
               /\ UNCHANGED <<appointment_slots, winners>>
          ELSE /\ period_reaches(doctor_schedules', S0, doctor, d, failed, written)
               /\ StoreSlots(generate_slots_for_period_failing(doctor_schedules', S0,
                                 doctor, Today, Today + HorizonDays, d, failed, written))
       /\ prev' = NoCall
       /\ fault' = failed
       /\ UNCHANGED <<gen, adding>>
       /\ UNCHANGED grid
       /\ last' = Done("update_weekly_schedule", failed # "delete_many")
       /\ listed' = {}
       /\ UNCHANGED <<daily_overrides, apptVars>>

\* create_daily_override when a slot-store operation of the regeneration raises
CreateDailyOverrideFailing(override_data, failed, written) ==
    /\ override_is_valid(override_data)
    /\ daily_overrides' = save_daily_override(daily_overrides, override_data)
    /\ regenerate_reaches(doctor_schedules, daily_overrides', override_data.doctor_email,
                          override_data.override_date, failed, written)
    /\ StoreSlots(regenerate_slots_for_date_failing(doctor_schedules, daily_overrides',
                      appointment_slots, override_data.doctor_email,
                      override_data.override_date, failed, written))
    /\ prev' = NoCall
    /\ fault' = failed
    /\ UNCHANGED <<gen, adding>>
    /\ UNCHANGED grid
    /\ last' = Done("create_daily_override", TRUE)
    /\ listed' = {}
    /\ UNCHANGED <<doctor_schedules, apptVars>>

\* delete_daily_override when a slot-store operation of the regeneration raises
DeleteDailyOverrideFailing(doctor, d, failed, written) ==
    /\ get_daily_override(daily_overrides, doctor, d) # {}
    /\ daily_overrides' = daily_overrides \ get_daily_override(daily_overrides, doctor, d)
    /\ regenerate_reaches(doctor_schedules, daily_overrides', doctor, d, failed, written)
    /\ StoreSlots(regenerate_slots_for_date_failing(doctor_schedules, daily_overrides',
                      appointment_slots, doctor, d, failed, written))
    /\ prev' = NoCall
    /\ fault' = failed
    /\ UNCHANGED <<gen, adding>>
    /\ UNCHANGED grid
    /\ last' = Done("delete_daily_override", TRUE)
    /\ listed' = {}
    /\ UNCHANGED <<doctor_schedules, apptVars>>


\* _generate_slots_for_day, to its existence check: the slots to write are computed
\* when the date has no slot
GenerateCheck(p, doctor, d) ==
    /\ gen[p].state = "idle"
    /\ get_weekly_schedule(doctor_schedules, doctor) # {}
    /\ LET day_schedule == (CHOOSE w \in get_weekly_schedule(doctor_schedules, doctor) :
                               TRUE).days[DayName(d)]
           existing_slots == SlotsOn(appointment_slots, doctor, d)
           slots == GridLoop(day_schedule.start_time, day_schedule.end_time,
                             DefaultSlotDuration, <<>>, <<>>)
       IN /\ day_schedule.present /\ day_schedule.is_available
          /\ gen' = [gen EXCEPT ![p] =
                        IF existing_slots = {} /\ slots # <<>>
                        THEN [state |-> "upserting", doctor |-> doctor, date |-> d,
                              pending |-> slots]
                        ELSE GenIdle]
          /\ last' = Ret("_generate_slots_for_day", doctor, d, NoTime, NoAppointment,
                         existing_slots = {})
    /\ prev' = NoCall
    /\ fault' = NoFault
    /\ UNCHANGED <<doctor_schedules, daily_overrides, appointment_slots, listed, winners,
                   apptVars, grid, adding>>

\* _regenerate_slots_for_date, to the call of create_appointment_slots: the slots
\* of the date are deleted and the slots to write are computed from the day view
RegenerateDelete(p, doctor, d) ==
    /\ gen[p].state = "idle"
    /\ StoreSlots(regenerate_delete(appointment_slots, doctor, d))
    /\ LET slots == regenerated_times(doctor_schedules, daily_overrides, doctor, d)
       IN gen' = [gen EXCEPT ![p] =
                     IF slots # <<>>
                     THEN [state |-> "upserting", doctor |-> doctor, date |-> d,
                           pending |-> slots]
                     ELSE GenIdle]
    /\ prev' = NoCall
    /\ fault' = NoFault
    /\ last' = Ret("_regenerate_slots_for_date", doctor, d, NoTime, NoAppointment, TRUE)
    /\ listed' = {}
    /\ UNCHANGED <<doctor_schedules, daily_overrides, apptVars, grid, adding>>

\* create_appointment_slots: one update_one with upsert
GenerateUpsert(p) ==
    /\ gen[p].state = "upserting"
    /\ StoreSlots(create_appointment_slots(appointment_slots, gen[p].doctor, gen[p].date,
                                           {Head(gen[p].pending)}))
    /\ gen' = [gen EXCEPT ![p] =
                  IF Tail(gen[p].pending) = <<>> THEN GenIdle
                  ELSE [gen[p] EXCEPT !.pending = Tail(@)]]
    /\ prev' = NoCall
    /\ fault' = NoFault
    /\ last' = Ret("create_appointment_slots", gen[p].doctor, gen[p].date,
                   Head(gen[p].pending), NoAppointment, TRUE)
    /\ listed' = {}
    /\ UNCHANGED <<doctor_schedules, daily_overrides, apptVars, grid, adding>>


\* add_block_time, to its read of the date's override
AddBlockTimeRead(p, doctor, d, block_time) ==
    /\ adding[p].state \in {"idle", "done"}
    /\ adding' = [adding EXCEPT ![p] =
                     [state |-> "read", doctor |-> doctor, date |-> d,
                      block_time |-> block_time,
                      daily_override |-> get_daily_override(daily_overrides, doctor, d)]]
    /\ prev' = NoCall
    /\ fault' = NoFault
    /\ last' = Ret("get_daily_override", doctor, d, NoTime, NoAppointment,
                   get_daily_override(daily_overrides, doctor, d) # {})
    /\ listed' = {}
    /\ UNCHANGED <<doctor_schedules, daily_overrides, appointment_slots, winners,
                   apptVars, gen, grid>>

\* add_block_time, after its read: the $push to the override it read, or
\* create_daily_override with the one window, and the regeneration of the date
AddBlockTimeWrite(p) ==
    LET doctor == adding[p].doctor
        d == adding[p].date
        block_time == adding[p].block_time
        override_data == DailyOverride(doctor, d, TRUE, NoTime, NoTime, <<block_time>>)
        success == adding[p].daily_override # {} \/ override_is_valid(override_data)
    IN /\ adding[p].state = "read"
       /\ \A o \in get_daily_override(daily_overrides, doctor, d) :
             Len(o.block_time_slots) < MaxWindows
       /\ daily_overrides' =
             IF adding[p].daily_override # {}
             THEN push_block_time(daily_overrides, doctor, d, block_time)
             ELSE IF success THEN save_daily_override(daily_overrides, override_data)
             ELSE daily_overrides
       /\ IF success
          THEN StoreSlots(regenerate_slots_for_date(doctor_schedules, daily_overrides',
                              appointment_slots, doctor, d))
          ELSE UNCHANGED <<appointment_slots, winners>>
       /\ adding' = [adding EXCEPT ![p] =
                        [state |-> IF success THEN "done" ELSE "idle", doctor |-> doctor,
                         date |-> d, block_time |-> block_time, daily_override |-> {}]]
       /\ prev' = NoCall
       /\ fault' = NoFault
       /\ last' = Ret("add_block_time", doctor, d, NoTime, NoAppointment, success)
       /\ listed' = {}
       /\ UNCHANGED <<doctor_schedules, apptVars, gen, grid>>


\* time passes
Tick ==
    /\ now < MaxClock
    /\ now' = now + 1
    /\ UNCHANGED <<doctor_schedules, daily_overrides, appointment_slots, appointments,
                   doctor_availability, pc, last, listed, winners, first_cancel, prev, fault,
                   gen, adding, grid>>

----------------------------------------------------------------------------
(* Specifications *)

\* the slot store and everything that writes it
NextSlots ==
    \/ \E sd \in ScheduleInputs : SetWeeklySchedule(sd)
    \/ \E sd \in ScheduleInputs : UpdateWeeklySchedule(sd)
    \/ \E doctor \in Doctors : DeleteWeeklySchedule(doctor)
    \/ \E doctor \in Doctors : CleanupDoctorSlots(doctor)
    \/ \E od \in OverrideInputs : CreateDailyOverride(od)
    \/ \E doctor \in Doctors, d \in Dates : DeleteDailyOverride(doctor, d)
    \/ \E doctor \in Doctors, d \in Dates, b \in BlockInputs : AddBlockTime(doctor, d, b)
    \/ \E doctor \in Doctors, r \in DateRanges : GetAvailableSlots(doctor, r[1], r[2])
    \/ \E doctor \in Doctors, r \in DateRanges :
          GetAvailableSlotsWithOverrides(doctor, r[1], r[2])
    \/ \E doctor \in Doctors, d \in Dates : GetDayView(doctor, d)
    \/ \E doctor \in Doctors, d \in Dates, t \in RequestTimes, id \in {FirstId} :
          BookSlot(doctor, d, t, id)
    \/ \E id \in Ids : CancelSlot(id)

SpecSlots == Init /\ [][NextSlots]_vars

\* booking and release over generated slots
NextBooking ==
    \/ \E sd \in BookingSchedules : SetWeeklySchedule(sd)
    \/ \E doctor \in Doctors : DeleteWeeklySchedule(doctor)
    \/ \E doctor \in Doctors : CleanupDoctorSlots(doctor)
    \/ \E doctor \in Doctors, d \in Dates, t \in RequestTimes, id \in Ids :
          BookSlot(doctor, d, t, id)
    \/ \E id \in Ids : CancelSlot(id)

SpecBooking == Init /\ [][NextBooking]_vars

\* creating appointments, two requests at a time, over generated slots
NextCreate ==
    \/ \E sd \in ScheduleInputs : SetWeeklySchedule(sd)
    \/ \E p \in Procs, doctor \in Doctors, d \in Dates, t \in RequestTimes :
          CreateCheck(p, doctor, d, t)
    \/ \E p \in Procs : CreateInsert(p)
    \/ \E id \in Ids : CancelAppointment(id)

SpecCreate == Init /\ [][NextCreate]_vars

\* an appointment, the slot booked under its id, and its cancellation
NextRelease ==
    \/ \E sd \in ScheduleInputs : SetWeeklySchedule(sd)
    \/ \E doctor \in Doctors, d \in {Today}, t \in RequestTimes, id \in Ids :
          BookSlot(doctor, d, t, id)
    \/ \E id \in Ids : CancelSlot(id)
    \/ \E doctor \in Doctors, d \in {Today}, t \in RequestTimes :
          CreateCheck("p1", doctor, d, t)
    \/ CreateInsert("p1")
    \/ \E id \in Ids : CancelAppointment(id)

SpecRelease == Init /\ [][NextRelease]_vars

\* cancelling appointments while time passes
NextCancel ==
    \/ \E doctor \in Doctors, d \in Dates, t \in RequestTimes :
          CreateCheck("p1", doctor, d, t)
    \/ CreateInsert("p1")
    \/ \E id \in Ids : CancelAppointment(id)
    \/ Tick

SpecCancel == Init /\ [][NextCancel]_vars

\* the status of appointments under create, update and cancel
NextStatus ==
    \/ \E d \in Dates, t \in RequestTimes : CreateCheck("p1", "d1", d, t)
    \/ CreateInsert("p1")
    \/ \E id \in Ids, u \in StatusUpdates : UpdateAppointment(id, u)
    \/ \E id \in Ids : CancelAppointment(id)

SpecStatus == Init /\ [][NextStatus]_vars

\* appointments that are moved to another date or time, and the slots they hold
NextReschedule ==
    \/ \E sd \in BookingSchedules : SetWeeklySchedule(sd)
    \/ \E t \in RequestTimes, id \in Ids : BookSlot("d1", Today, t, id)
    \/ \E t \in RequestTimes : CreateCheck("p1", "d1", Today, t)
    \/ CreateInsert("p1")
    \/ \E id \in Ids, u \in RescheduleUpdates : UpdateAppointment(id, u)

SpecReschedule == Init /\ [][NextReschedule]_vars

\* one template per doctor, of either slot duration, and overrides that come and go
NextDuration ==
    \/ \E sd \in DurationSchedules :
          get_weekly_schedule(doctor_schedules, sd.doctor_email) = {}
              /\ SetWeeklySchedule(sd)
    \/ \E doctor \in Doctors : DeleteWeeklySchedule(doctor)
    \/ \E od \in OverrideInputs : CreateDailyOverride(od)
    \/ \E doctor \in Doctors, d \in Dates : DeleteDailyOverride(doctor, d)

SpecDuration == Init /\ [][NextDuration]_vars

\* one run of the slot generation loop, from every interval, duration and block list
NextGrid ==
    \/ GridIterate
    \/ GridExit

SpecGrid == InitGrid /\ [][NextGrid]_vars

\* the two listings: of the slot store under the weekly template, and of the
\* availability entries
NextListing ==
    \/ \E sd \in ScheduleInputs : SetWeeklySchedule(sd)
    \/ \E doctor \in Doctors, r \in DateRanges : GetAvailableSlots(doctor, r[1], r[2])
    \/ \E av \in AvailabilityInputs : SetDoctorAvailability(av)
    \/ \E doctor \in Doctors, r \in DateRanges, month_end \in Dates \cup {NoDate} :
          AvailabilityGetAvailableSlots(doctor, r[1], r[2], month_end)

SpecListing == Init /\ [][NextListing]_vars

\* the availability entries, the appointments, and the slots listed from them
NextAvailability ==
    \/ \E av \in AvailabilityInputs : SetDoctorAvailability(av)
    \/ \E doctor \in Doctors, r \in DateRanges, month_end \in Dates \cup {NoDate} :
          AvailabilityGetAvailableSlots(doctor, r[1], r[2], month_end)
    \/ \E d \in Dates, t \in RequestTimes : CreateCheck("p1", "d1", d, t)
    \/ CreateInsert("p1")
    \/ \E id \in Ids : CancelAppointment(id)

SpecAvailability == Init /\ [][NextAvailability]_vars


\* block times on open days, and the listing that filters them
NextBlocks ==
    \/ \E sd \in BookingSchedules : SetWeeklySchedule(sd)
    \/ \E od \in ListingOverrides : CreateDailyOverride(od)
    \/ \E doctor \in Doctors, d \in Dates, b \in ListingBlockInputs :
          AddBlockTime(doctor, d, b)
    \/ \E doctor \in Doctors, r \in DateRanges :
          GetAvailableSlotsWithOverrides(doctor, r[1], r[2])

SpecBlocks == Init /\ [][NextBlocks]_vars


\* the upserts done before one raises: fewer than a day of 09:00-10:00 has slots
WrittenBefore == 0 .. 1

\* schedules and overrides whose regeneration meets a storage failure
NextFaults ==
    \/ \E sd \in ScheduleInputs : SetWeeklySchedule(sd)
    \/ \E od \in OverrideInputs : CreateDailyOverride(od)
    \/ \E sd \in ScheduleInputs, d \in Dates, failed \in StoreFaults, k \in WrittenBefore :
          SetWeeklyScheduleFailing(sd, d, failed, k)
    \/ \E sd \in ScheduleInputs, d \in Dates, failed \in StoreFaults, k \in WrittenBefore :
          UpdateWeeklyScheduleFailing(sd, d, failed, k)
    \/ \E od \in OverrideInputs, failed \in StoreFaults, k \in WrittenBefore :
          CreateDailyOverrideFailing(od, failed, k)
    \/ \E doctor \in Doctors, d \in Dates, failed \in StoreFaults, k \in WrittenBefore :
          DeleteDailyOverrideFailing(doctor, d, failed, k)

SpecFaults == Init /\ [][NextFaults]_vars


\* generations and regenerations of two tasks, step by step, with booking and release
NextInterleaved ==
    \/ \E sd \in BookingSchedules :
          get_weekly_schedule(doctor_schedules, sd.doctor_email) = {}
              /\ SetWeeklySchedule(sd)
    \/ \E p \in Procs, doctor \in Doctors, d \in Dates : GenerateCheck(p, doctor, d)
    \/ \E p \in Procs, doctor \in Doctors, d \in Dates : RegenerateDelete(p, doctor, d)
    \/ \E p \in Procs : GenerateUpsert(p)
    \/ \E doctor \in Doctors, d \in Dates, t \in RequestTimes, id \in Ids :
          BookSlot(doctor, d, t, id)
    \/ \E id \in Ids : CancelSlot(id)

SpecInterleaved == Init /\ [][NextInterleaved]_vars


\* the loop with its iterations past MaxIterations: every run is followed to its
\* exit, or for ever
NextGridLive ==
    \/ GridIterate
    \/ GridIterateOn
    \/ GridExit

\* the loop is not suspended: an iteration or the exit that is possible is taken
SpecGridLive == InitGrid /\ [][NextGridLive]_vars /\ WF_vars(NextGridLive)

\* the windows two tasks add: the first and the second half hour of 09:00-10:00
AddedBlockInputs ==
    {[start_time |-> 540, end_time |-> 570], [start_time |-> 570, end_time |-> 600]}

\* two tasks that add block times, step by step
NextAdding ==
    \/ \E sd \in BookingSchedules :
          get_weekly_schedule(doctor_schedules, sd.doctor_email) = {}
              /\ SetWeeklySchedule(sd)
    \/ \E p \in Procs, doctor \in Doctors, d \in Dates, b \in AddedBlockInputs :
          AddBlockTimeRead(p, doctor, d, b)
    \/ \E p \in Procs : AddBlockTimeWrite(p)

SpecAdding == Init /\ [][NextAdding]_vars


----------------------------------------------------------------------------
(* Properties *)

LastKey == [doctor_email |-> last.doctor, slot_date |-> last.date, slot_time |-> last.time]

SlotAt(S, key) == {s \in S : KeyOf(s) = key}

LiveStatuses == {"scheduled", "confirmed"}

AppointmentsAt(A, doctor, d, t) ==
    {a \in A : a.doctor_email = doctor /\ a.appointment_date = d
               /\ a.appointment_time = t}

\* C1: for every (doctor_email, appointment_date, appointment_time), at most one
\* appointment whose status is not cancelled references that key, after any
\* interleaving of create_appointment calls.
NoDoubleBooking ==
    \A a \in appointments, b \in appointments :
        (/\ a.doctor_email = b.doctor_email
         /\ a.appointment_date = b.appointment_date
         /\ a.appointment_time = b.appointment_time
         /\ a.status # "cancelled"
         /\ b.status # "cancelled") => a = b

\* C2: of the book_slot calls made for one key while it is booked, exactly one
\* returned true: the key has one winner, the slot carries the winner's id, and a
\* caller is turned away only when the slot is not free.
BookSlotAtomic ==
    /\ \A w1 \in winners, w2 \in winners : w1.key = w2.key => w1 = w2
    /\ \A w \in winners :
          \E s \in appointment_slots :
              KeyOf(s) = w.key /\ ~s.is_available /\ s.appointment_id = w.id
    /\ last.op = "book_slot" =>
          IF last.result
          THEN [key |-> LastKey, id |-> last.id] \in winners
          ELSE \A s \in SlotAt(appointment_slots, LastKey) : ~s.is_available

\* C2 witness: a second caller, with another id, was turned away from a key that
\* the first caller holds.
BookSlotRaceSeen ==
    /\ last.op = "book_slot"
    /\ ~last.result
    /\ \E w \in winners : w.key = LastKey /\ w.id # last.id

\* C3: a book_slot on a key with no slot record, or with a booked one, returns
\* false and leaves every slot record as it was.
BookSlotConflictLeavesStore ==
    [][(/\ last'.op = "book_slot"
        /\ \A s \in appointment_slots :
              KeyOf(s) = [doctor_email |-> last'.doctor, slot_date |-> last'.date,
                          slot_time |-> last'.time] => ~s.is_available)
       => (last'.result = FALSE /\ appointment_slots' = appointment_slots)]_vars

\* C3 witness: book_slot was refused on a slot another appointment holds, and
\* the slot still carries that appointment.
BookSlotRefusedOnBooked ==
    /\ last.op = "book_slot"
    /\ ~last.result
    /\ \E s \in SlotAt(appointment_slots, LastKey) :
          ~s.is_available /\ s.appointment_id \notin {NoAppointment, last.id}

RegenerationOps ==
    {"create_daily_override", "delete_daily_override", "add_block_time",
     "update_weekly_schedule", "cleanup_doctor_slots"}

\* C4: a slot that is booked before a regeneration (_regenerate_slots_for_date,
\* update_weekly_schedule, cleanup_doctor_slots) is still there, booked by the
\* same appointment, after it.
RegenerationPreservesBookings ==
    [][last'.op \in RegenerationOps =>
          \A s \in appointment_slots :
              (~s.is_available /\ s.appointment_id # NoAppointment)
                  => s \in appointment_slots']_vars

\* C5: a listing returns no slot of a date that has an override with
\* is_available = false.
OverridePrecedence ==
    \A s \in listed :
        ~\E o \in daily_overrides :
            /\ o.doctor_email = s.doctor_email
            /\ o.override_date = s.slot_date
            /\ ~o.is_available

\* C6: after a successful create_appointment the slot of its key exists, is
\* booked and carries the new appointment's id.
AppointmentHoldsSlot ==
    (last.op = "create_appointment" /\ last.result) =>
        \E s \in SlotAt(appointment_slots, LastKey) :
            ~s.is_available /\ s.appointment_id = last.id

\* C7: after cancel_appointment(id) the slot of the appointment's key no longer
\* carries id.
CancelReleasesSlot ==
    last.op = "cancel_appointment" =>
        \A a \in appointments :
            a.id = last.id =>
                \A s \in appointment_slots :
                    (/\ s.doctor_email = a.doctor_email
                     /\ s.slot_date = a.appointment_date
                     /\ s.slot_time = a.appointment_time) => s.appointment_id # a.id

\* C8: _is_slot_available returns true exactly when the key has a slot record
\* with is_available = true and no scheduled or confirmed appointment.
IsSlotAvailableContract ==
    last.op = "_is_slot_available" =>
        (last.result <=>
            (/\ \E s \in SlotAt(appointment_slots, LastKey) : s.is_available
             /\ \A a \in AppointmentsAt(appointments, last.doctor, last.date, last.time) :
                   a.status \notin LiveStatuses))

\* C9: a cancel_appointment of an appointment leaves it cancelled and reports
\* what its first cancellation reported.
CancelIdempotent ==
    (last.op = "cancel_appointment" /\ first_cancel[last.id] # "none") =>
        /\ \A a \in appointments : a.id = last.id => a.status = "cancelled"
        /\ last.result <=> (first_cancel[last.id] = "true")

\* C10: cancel_slot called again for the same id, right after a cancel_slot for
\* it, returns false and leaves every slot record as it was.
ReleaseIdempotent ==
    [][(last.op = "cancel_slot" /\ last'.op = "cancel_slot" /\ last'.id = last.id)
       => (last'.result = FALSE /\ appointment_slots' = appointment_slots)]_vars

\* C11: when book_slot(key, A) returned true, cancel_slot(A) returned true next
\* and book_slot(key, B) with another id B follows, that call returns true and
\* the slot of the key carries B.
ReleaseThenReclaim ==
    [][(/\ prev.op = "book_slot" /\ prev.result
        /\ last.op = "cancel_slot" /\ last.result /\ last.id = prev.id
        /\ last'.op = "book_slot" /\ last'.id # prev.id
        /\ last'.doctor = prev.doctor /\ last'.date = prev.date
        /\ last'.time = prev.time)
       => (/\ last'.result
           /\ \E s \in appointment_slots' :
                 /\ KeyOf(s) = [doctor_email |-> prev.doctor, slot_date |-> prev.date,
                                slot_time |-> prev.time]
                 /\ ~s.is_available
                 /\ s.appointment_id = last'.id)]_vars

NoDuplicateKey(S) == \A s1 \in S, s2 \in S : KeyOf(s1) = KeyOf(s2) => s1 = s2

\* C12: a regeneration run on the slot store a first run of it left, with the
\* same template and overrides, leaves that store as it is, and the store has
\* no two records of one key; for _regenerate_slots_for_date of every date, for
\* _generate_slots_for_period and for cleanup_doctor_slots.
RegenerationIdempotent ==
    \A doctor \in Doctors :
        LET W == doctor_schedules
            O == daily_overrides
            S == appointment_slots
            P1 == generate_slots_for_period(W, S, doctor, Today, Today + HorizonDays)
            C1 == cleanup_doctor_slots(W, S, doctor)
        IN /\ generate_slots_for_period(W, P1, doctor, Today, Today + HorizonDays) = P1
           /\ cleanup_doctor_slots(W, C1, doctor) = C1
           /\ NoDuplicateKey(P1) /\ NoDuplicateKey(C1)
           /\ \A d \in Dates :
                 LET R1 == regenerate_slots_for_date(W, O, S, doctor, d)
                 IN /\ regenerate_slots_for_date(W, O, R1, doctor, d) = R1
                    /\ NoDuplicateKey(R1)

\* C12 witness: cleanup_doctor_slots ran twice in a row and the store it left
\* holds slots.
RegeneratedTwice ==
    /\ prev.op = "cleanup_doctor_slots"
    /\ last.op = "cleanup_doctor_slots"
    /\ appointment_slots # {}
    /\ appointment_slots =
          cleanup_doctor_slots(doctor_schedules, appointment_slots, "d1")

\* the start times start + k * duration whose slot ends by end_time
GridPoints(start_time, end_time, slot_duration) ==
    {t \in start_time .. end_time :
        /\ (t - start_time) % slot_duration = 0
        /\ t + slot_duration <= end_time}

\* [t, t + duration) overlaps a window [start_time, end_time) of block_times
Overlaps(t, slot_duration, block_times) ==
    \E i \in 1 .. Len(block_times) :
        t < block_times[i].end_time /\ t + slot_duration > block_times[i].start_time

\* C13: the slots a run with block times collects are grid start times of the
\* interval whose [t, t + duration) overlaps no block-time window, and when the
\* loop has ended they are all of those.
BlockTimeExclusion ==
    (grid.state # "idle" /\ grid.block_times # <<>>) =>
        LET expected == {t \in GridPoints(grid.start_time, grid.end_time,
                                          grid.slot_duration) :
                            ~Overlaps(t, grid.slot_duration, grid.block_times)}
        IN /\ SeqRange(grid.slots) \subseteq expected
           /\ grid.state = "done" => SeqRange(grid.slots) = expected

\* C14: the slots a run without block times yields are, in order, start,
\* start + duration, ... with every slot ending by end_time, and when the loop
\* has ended they are all of those; none when start >= end.
GridContract ==
    (grid.state # "idle" /\ grid.block_times = <<>>) =>
        /\ \A k \in 1 .. Len(grid.slots) :
              /\ grid.slots[k] = grid.start_time + (k - 1) * grid.slot_duration
              /\ grid.slots[k] + grid.slot_duration <= grid.end_time
        /\ grid.state = "done" =>
              Len(grid.slots) = Cardinality(GridPoints(grid.start_time, grid.end_time,
                                                       grid.slot_duration))

\* C15: the slot store never holds two records with the same (doctor_email,
\* slot_date, slot_time), whatever generation, regeneration, booking and release
\* operations have run.
SlotKeyUnique == NoDuplicateKey(appointment_slots)

\* C15 witness: slots were generated and booked, a release succeeded, and the
\* store holds a free and a booked slot.
StoreAfterBookingAndRelease ==
    /\ last.op = "cancel_slot" /\ last.result
    /\ \E s1 \in appointment_slots, s2 \in appointment_slots :
          s1.is_available /\ ~s2.is_available

\* the weekly template's entry for the weekday of a date
TemplateEntry(W, doctor, d) ==
    IF get_weekly_schedule(W, doctor) = {} THEN NoEntry
    ELSE (CHOOSE w \in get_weekly_schedule(W, doctor) : TRUE).days[DayName(d)]

\* C16: for a date with an override whose is_available is true, get_day_view
\* computes the day as available, with the override's start and end where it
\* gives them and the template's otherwise, and the override's block times;
\* also when the template has no entry for the weekday.
ResolverOpenOverride ==
    last.op = "get_day_view" =>
        \A o \in get_daily_override(daily_overrides, last.doctor, last.date) :
            o.is_available =>
                LET ca == compute_day_availability(doctor_schedules, daily_overrides,
                                                   last.doctor, last.date)
                    entry == TemplateEntry(doctor_schedules, last.doctor, last.date)
                IN /\ last.result = TRUE
                   /\ ca.is_available
                   /\ ca.start_time = IF o.start_time # NoTime THEN o.start_time
                                      ELSE entry.start_time
                   /\ ca.end_time = IF o.end_time # NoTime THEN o.end_time
                                    ELSE entry.end_time
                   /\ ca.block_times = o.block_time_slots

\* C17: every change of an appointment's status is a step of the state machine
\* scheduled -> confirmed -> completed, scheduled/confirmed -> cancelled/no_show;
\* so a cancelled or completed appointment keeps its status under
\* update_appointment and cancel_appointment.
TerminalStatuses ==
    [][\A a \in appointments, b \in appointments' :
          (a.id = b.id /\ a.status # b.status)
              => <<a.status, b.status>> \in StatusTransitions]_vars

\* the slot records of an appointment's (doctor, date, time)
SlotOf(S, a) ==
    {s \in S : /\ s.doctor_email = a.doctor_email
               /\ s.slot_date = a.appointment_date
               /\ s.slot_time = a.appointment_time}

\* C18: an update_appointment that asks for another date or time either moves
\* the appointment, frees its old slot and books the new one under its id, or
\* leaves the appointment and every slot record as they were.
RescheduleAllOrNothing ==
    [][last'.op = "update_appointment" =>
          \A a \in appointments :
              a.id = last'.id =>
                  \/ appointments' = appointments /\ appointment_slots' = appointment_slots
                  \/ \E b \in appointments' :
                        /\ b.id = a.id
                        /\ SlotOf(appointment_slots', b) # {}
                        /\ \A s \in SlotOf(appointment_slots', a)
                                       \ SlotOf(appointment_slots', b) : s.is_available
                        /\ \A s \in SlotOf(appointment_slots', b) :
                              ~s.is_available /\ s.appointment_id = b.id]_vars

\* the slot times a template entry gives with a slot duration: none when the
\* entry is absent or unavailable
EntryTimes(entry, slot_duration) ==
    IF entry.present /\ entry.is_available
    THEN GridPoints(entry.start_time, entry.end_time, slot_duration)
    ELSE {}

\* C19: when set_weekly_schedule stores a template for a doctor who had a
\* template and slots, then every date of the horizon that has no override and
\* no booked slot holds exactly the slots of the new template's entry for its
\* weekday.
ReplaceTemplateRegenerates ==
    [][(/\ last'.op = "set_weekly_schedule"
        /\ get_weekly_schedule(doctor_schedules, "d1") # {}
        /\ appointment_slots # {})
       => \A d \in Dates :
             (/\ get_daily_override(daily_overrides', "d1", d) = {}
              /\ \A s \in SlotsOn(appointment_slots', "d1", d) : s.is_available)
             => {s.slot_time : s \in SlotsOn(appointment_slots', "d1", d)}
                  = EntryTimes(TemplateEntry(doctor_schedules', "d1", d),
                               (CHOOSE w \in doctor_schedules' : TRUE).slot_duration_minutes)]_vars

\* C20: after an override is deleted, every date without override holds the
\* slots that generation from the weekly template alone gives it: the slots
\* _regenerate_slots_for_date stores are those of _generate_slots_for_period.
OneSlotDuration ==
    [][(last'.op = "delete_daily_override" /\ last'.result)
       => \A d \in Dates :
             get_daily_override(daily_overrides', "d1", d) = {}
             => SlotsOn(appointment_slots', "d1", d)
                  = SlotsOn(generate_slots_for_period(doctor_schedules', {}, "d1", d, d),
                            "d1", d)]_vars

\* C21: after update_weekly_schedule, a date of the horizon that has an override
\* holds the unbooked slots the override resolves to: none when the override
\* closes the day, none that overlaps one of its block-time windows, and none
\* outside its interval when it gives one.
TemplateUpdateKeepsOverrides ==
    [][last'.op = "update_weekly_schedule" =>
          \A d \in Dates :
              \A o \in get_daily_override(daily_overrides', "d1", d) :
                  \A s \in SlotsOn(appointment_slots', "d1", d) :
                      s.is_available =>
                          LET slot_duration ==
                                  (CHOOSE w \in doctor_schedules' : TRUE).slot_duration_minutes
                          IN /\ o.is_available
                             /\ ~Overlaps(s.slot_time, slot_duration, o.block_time_slots)
                             /\ (o.start_time # NoTime /\ o.end_time # NoTime)
                                   => /\ o.start_time <= s.slot_time
                                      /\ s.slot_time + slot_duration <= o.end_time]_vars

\* C22: a listing returns no slot of a date that has no override and whose
\* weekday has no available entry: no available template entry for
\* DoctorAvailabilityService.get_available_slots, no available availability entry
\* for AvailabilityService.get_available_slots; also when another weekday has one.
ClosedDayListsNothing ==
    /\ last.op = "get_available_slots" =>
          \A s \in listed :
              \/ get_daily_override(daily_overrides, s.doctor_email, s.slot_date) # {}
              \/ LET entry == TemplateEntry(doctor_schedules, s.doctor_email, s.slot_date)
                 IN entry.present /\ entry.is_available
    /\ last.op = "AvailabilityService.get_available_slots" =>
          \A s \in listed :
              \E i \in 1 .. Len(doctor_availability) :
                  /\ doctor_availability[i].doctor_email = s.doctor_email
                  /\ doctor_availability[i].day_of_week = weekday(s.date)
                  /\ doctor_availability[i].is_available

\* C23: every slot AvailabilityService.get_available_slots returns lies in an
\* available entry of its weekday: it starts at the entry's start_time + k * 30
\* minutes and time + duration_minutes is at most the entry's end_time.
ListedSlotsFitInterval ==
    last.op = "AvailabilityService.get_available_slots" =>
        \A s \in listed :
            LET availability == get_doctor_availability(doctor_availability, s.doctor_email)
            IN \E i \in 1 .. Len(day_availability(availability, s.date)) :
                  LET av == day_availability(availability, s.date)[i]
                  IN /\ s.time >= av.start_time
                     /\ (s.time - av.start_time) % DefaultSlotDuration = 0
                     /\ s.time + s.duration_minutes <= av.end_time

\* C24: get_available_slots_with_overrides returns no slot whose
\* [slot_time, slot_time + duration) overlaps a block-time window of the
\* override of the slot's date; also when the windows cover every slot of the day.
ListingHonoursBlockTimes ==
    last.op = "get_available_slots_with_overrides" =>
        \A s \in listed :
            \A o \in get_daily_override(daily_overrides, s.doctor_email, s.slot_date) :
                ~Overlaps(s.slot_time,
                          (CHOOSE w \in get_weekly_schedule(doctor_schedules, s.doctor_email) :
                               TRUE).slot_duration_minutes,
                          o.block_time_slots)

\* C25: when a slot-store operation raised during the regeneration that
\* create_daily_override, delete_daily_override, set_weekly_schedule or
\* update_weekly_schedule runs, the call does not return success.
StorageFailureNotSuccess ==
    (/\ fault # NoFault
     /\ last.op \in {"create_daily_override", "delete_daily_override",
                     "set_weekly_schedule", "update_weekly_schedule"})
        => ~last.result

\* C26: a slot that is booked (is_available = false, an appointment_id) stays as
\* it is under every step that is not a cancel_slot for its appointment: under the
\* existence check, the delete and every upsert of a generation or regeneration,
\* of one task or of two.
BookingFieldsKept ==
    [][\A s \in appointment_slots :
          (~s.is_available /\ s.appointment_id # NoAppointment)
              => \/ s \in appointment_slots'
                 \/ last'.op = "cancel_slot" /\ last'.id = s.appointment_id]_vars

\* C27: every run of the generation loop ends: from every start, end and
\* duration, also when start + k * duration passes midnight, the loop reaches its
\* exit.
GridTerminates == <>(grid.state = "done")

\* C28: get_available_slots and get_available_slots_with_overrides leave every
\* booked slot record (is_available = false, an appointment_id) in the store as
\* it is, whatever the weekly template holds for the weekday of its date.
ListingKeepsBookings ==
    [][last'.op \in {"get_available_slots", "get_available_slots_with_overrides"} =>
          \A s \in appointment_slots :
              (~s.is_available /\ s.appointment_id # NoAppointment)
                  => s \in appointment_slots']_vars

\* C29: when two add_block_time calls for one (doctor, date) with different
\* windows have both returned success, the date has exactly one override record
\* and its block_time_slots hold both windows, however the steps of the two calls
\* were interleaved.
NoLostBlockTime ==
    \A p \in Procs, q \in Procs :
        (/\ adding[p].state = "done" /\ adding[q].state = "done"
         /\ adding[p].doctor = adding[q].doctor /\ adding[p].date = adding[q].date
         /\ adding[p].block_time # adding[q].block_time)
        => LET found == get_daily_override(daily_overrides, adding[p].doctor,
                                           adding[p].date)
           IN /\ Cardinality(found) = 1
              /\ \A o \in found :
                    {adding[p].block_time, adding[q].block_time}
                        \subseteq SeqRange(o.block_time_slots)

\* C30: when cancel_slot(appointment_id) has returned, no slot record carries
\* that appointment_id; also when the id was used to book more than one key.
ReleaseFreesEverything ==
    last.op = "cancel_slot" =>
        \A s \in appointment_slots : s.appointment_id # last.id

====
